---- MODULE Spec2Model ----
(***************************************************************************)
(* A model of the spaniel connection core: ConnectionContext (the shared   *)
(* hub behind one mutex), ConnectionDriver (the task that pumps the reader *)
(* into the context and the context into the writer) and the stream        *)
(* handles StreamRef, IncomingStreams and StreamRequester.                 *)
(*                                                                         *)
(* Every step that runs under one acquisition of the context mutex is one  *)
(* action.  The driver's poll is a sequence of such steps (one per         *)
(* iteration of the read loop, one for poll_write_progress and what        *)
(* follows it) and application calls interleave between them.              *)
(*                                                                         *)
(* The flow_control module (Credits, FC_NUMERATOR, FC_DENOMINATOR,         *)
(* FlowControlStrategy) is not among the sources: Credits is modelled from *)
(* its specification, and add_credit's result from its use in              *)
(* return_credit, which reads it as the new available amount.              *)
(*                                                                         *)
(* futures::sync::mpsc (0.1) is a library: a channel(buffer) with one      *)
(* Sender accepts a message whenever the Sender is not parked, parks the   *)
(* Sender when the number of queued messages exceeds buffer, and the       *)
(* Receiver unparks it when it takes a message.                            *)
(***************************************************************************)
EXTENDS Integers, Sequences, FiniteSets, TLC

\* ---------------------------------------------------------------- bounds

\* Frames the transport delivers to the reader over one run.
MaxInbound == 3
\* Buffer of the outbound channel, mpsc::channel(1024) in the source, scaled
\* down so that the full queue is reached.
OutboundBuffer == 0
\* Frames send_frame has returned Ok for and the writer has not been handed:
\* no further frame is sent while there are this many.
MaxUnwritten == 2

\* ------------------------------------------------------ program constants

\* mpsc::channel(1): buffer of a stream's inbound channel.
StreamBuffer == 1
\* flow_control::FC_NUMERATOR / FC_DENOMINATOR.
FC_NUMERATOR == 1
FC_DENOMINATOR == 2

\* ----------------------------------------------------------------- inputs

\* Stream ids, credit capacities, payload lengths and credit amounts the
\* inputs are drawn from.
StreamIds == {1}
Capacities == {0, 4}
PayloadLens == {0, 2}
CreditAmounts == {0, 1, 2}
\* Stream ids of the inbound StreamRequest frames where the order in which
\* streams are accepted is recorded.
AcceptIds == {1, 2}

\* A payload is its length and an id standing for its bytes: the transport's
\* k-th frame carries id k, the payloads an application sends carry id 0.
Payload(len, id) == [len |-> len, id |-> id]

\* ----------------------------------------------------------------- frames

NoFrame == [type |-> "None"]
StreamRequestFrame(s, c) == [type |-> "StreamRequest", stream_id |-> s, credit_capacity |-> c]
CreditUpdateFrame(s, c) == [type |-> "CreditUpdate", stream_id |-> s, credit |-> c]
DataFrame(s, p) == [type |-> "Data", stream_id |-> s, payload |-> p]
PingFrame == [type |-> "Ping"]
PongFrame == [type |-> "Pong"]
UnknownFrame == [type |-> "Unknown"]

\* The frames the transport may deliver as its k-th frame.
Frame(k) ==
    {StreamRequestFrame(s, c) : s \in StreamIds, c \in Capacities}
      \cup {CreditUpdateFrame(s, 1) : s \in StreamIds}
      \cup {DataFrame(s, Payload(n, k)) : s \in StreamIds, n \in PayloadLens}
      \cup {PingFrame, UnknownFrame}

\* Frames an application hands to send_frame.
AppFrame ==
    {DataFrame(s, Payload(n, 0)) : s \in StreamIds, n \in PayloadLens} \cup {PingFrame}

\* ---------------------------------------------------------------- credits

\* Credits::new(capacity)
NewCredits(capacity) == [capacity |-> capacity, available |-> capacity]

\* Credits::has_capacity(n)
has_capacity(c, n) == c.available >= n

\* Credits::use_credit(n): the caller has checked has_capacity(n).
use_credit(c, n) == [c EXCEPT !.available = @ - n]

\* Credits::add_credit(n): saturating at capacity.  The call site reads the
\* returned value as the new available amount.
add_credit(c, n) ==
    [c EXCEPT !.available = IF c.available + n > c.capacity THEN c.capacity ELSE c.available + n]

\* ------------------------------------------------------------ mpsc channel

\* Sender::poll_ready
SenderPollReady(sender) == IF sender.is_parked THEN "NotReady" ELSE "Ready"

\* Sender::try_send: [ok, queue, sender] of a send of msg on (queue, sender)
\* of a channel(buffer).
SenderTrySend(queue, sender, buffer, msg) ==
    IF sender.is_parked
      THEN [ok |-> FALSE, queue |-> queue, sender |-> sender]
      ELSE [ok |-> TRUE,
            queue |-> Append(queue, msg),
            sender |-> [is_parked |-> Len(queue) + 1 > buffer]]

\* Receiver::poll: [item, queue, sender]; item is NoFrame for NotReady.
ReceiverPoll(queue, sender) ==
    IF queue = <<>>
      THEN [item |-> NoFrame, queue |-> queue, sender |-> sender]
      ELSE [item |-> Head(queue), queue |-> Tail(queue), sender |-> [is_parked |-> FALSE]]

\* ------------------------------------------------------ ConnectionContext

Ready == [tag |-> "Ready"]
NotReady(f) == [tag |-> "NotReady", frame |-> f]
Err(e) == [tag |-> "Err", err |-> e]

\* HashMap::insert
Insert(m, k, v) == [x \in DOMAIN m \cup {k} |-> IF x = k THEN v ELSE m[x]]

\* The StreamState built by on_stream_request and by StreamRequester::poll.
NewStreamState(capacity) ==
    [credits |-> NewCredits(capacity), data |-> <<>>, send_task |-> FALSE, recv_task |-> FALSE]

\* ConnectionContext::new with the configured flow-control strategy.
NewContext(strategy) ==
    [cfg |-> [flow_control_strategy |-> strategy],
     err |-> "None",
     conn_task |-> FALSE,
     new_stream_task |-> FALSE,
     stream_states |-> <<>>,
     stream_senders |-> <<>>,
     outbound |-> [is_parked |-> FALSE],
     outbound_listener |-> <<>>,
     new_streams |-> <<>>]

\* ConnectionContext::notify_conn_task
notify_conn_task(ctx) == [ctx EXCEPT !.conn_task = FALSE]

\* ConnectionContext::notify_new_stream_task
notify_new_stream_task(ctx) == [ctx EXCEPT !.new_stream_task = FALSE]

\* on_stream_request without the lookup of the stream id: a request for a
\* known stream replaces it.
on_stream_request_replacing(ctx, request) ==
    [ctx |-> notify_new_stream_task(
               [ctx EXCEPT
                  !.stream_states =
                     Insert(@, request.stream_id, NewStreamState(request.credit_capacity)),
                  !.stream_senders = Insert(@, request.stream_id, [is_parked |-> FALSE]),
                  !.new_streams = Append(@, request)]),
     res |-> Ready]

\* on_stream_request without notify_new_stream_task.
on_stream_request_silent(ctx, request) ==
    IF request.stream_id \in DOMAIN ctx.stream_states
      THEN [ctx |-> ctx, res |-> Err("InvalidStreamId")]
      ELSE [ctx |-> [ctx EXCEPT
                       !.stream_states =
                          Insert(@, request.stream_id, NewStreamState(request.credit_capacity)),
                       !.stream_senders = Insert(@, request.stream_id, [is_parked |-> FALSE]),
                       !.new_streams = Append(@, request)],
            res |-> Ready]

\* ConnectionContext::on_stream_request
on_stream_request(ctx, request) ==
    IF request.stream_id \in DOMAIN ctx.stream_states
      THEN [ctx |-> ctx, res |-> Err("InvalidStreamId")]
      ELSE [ctx |-> notify_new_stream_task(
                      [ctx EXCEPT
                         !.stream_states =
                            Insert(@, request.stream_id, NewStreamState(request.credit_capacity)),
                         !.stream_senders = Insert(@, request.stream_id, [is_parked |-> FALSE]),
                         !.new_streams = Append(@, request)]),
            res |-> Ready]

\* ConnectionContext::on_credit_update
on_credit_update(ctx, request) == [ctx |-> ctx, res |-> Ready]

\* on_data without the poll_ready check and with the result of try_send
\* discarded, as send_frame discards it.
on_data_unchecked(ctx, data) ==
    LET stream_id == data.stream_id IN
    IF stream_id \notin DOMAIN ctx.stream_states
      THEN [ctx |-> ctx, res |-> Err("InvalidStreamId")]
      ELSE
        LET stream_state == ctx.stream_states[stream_id]
            sent == SenderTrySend(stream_state.data, ctx.stream_senders[stream_id],
                                  StreamBuffer, data)
        IN [ctx |-> [ctx EXCEPT !.stream_states[stream_id].data = sent.queue,
                                !.stream_senders[stream_id] = sent.sender],
            res |-> Ready]

\* on_data reserving credit without the has_capacity check.
on_data_overdrawing(ctx, data) ==
    LET stream_id == data.stream_id IN
    IF stream_id \notin DOMAIN ctx.stream_states
      THEN [ctx |-> ctx, res |-> Err("InvalidStreamId")]
      ELSE
        LET stream_state == ctx.stream_states[stream_id]
            sender == ctx.stream_senders[stream_id]
            enabled == ctx.cfg.flow_control_strategy # "Disabled"
        IN
        IF SenderPollReady(sender) = "NotReady"
          THEN [ctx |-> ctx, res |-> NotReady(data)]
          ELSE
            LET credits == IF enabled
                             THEN use_credit(stream_state.credits, data.payload.len)
                             ELSE stream_state.credits
                sent == SenderTrySend(stream_state.data, sender, StreamBuffer, data)
            IN [ctx |-> [ctx EXCEPT
                           !.stream_states[stream_id].credits = credits,
                           !.stream_states[stream_id].data = sent.queue,
                           !.stream_senders[stream_id] = sent.sender],
                res |-> IF sent.ok THEN Ready ELSE NotReady(data)]

\* on_data reserving the credit before the poll_ready check, so that a frame
\* answered NotReady has been charged.
on_data_charging_first(ctx, data) ==
    LET stream_id == data.stream_id IN
    IF stream_id \notin DOMAIN ctx.stream_states
      THEN [ctx |-> ctx, res |-> Err("InvalidStreamId")]
      ELSE
        LET stream_state == ctx.stream_states[stream_id]
            sender == ctx.stream_senders[stream_id]
            frame_size == data.payload.len
            enabled == ctx.cfg.flow_control_strategy # "Disabled"
        IN
        IF enabled /\ ~has_capacity(stream_state.credits, frame_size)
          THEN [ctx |-> ctx, res |-> Err("InsufficientCredit")]
          ELSE
            LET credits == IF enabled
                             THEN use_credit(stream_state.credits, frame_size)
                             ELSE stream_state.credits
                reserved == [ctx EXCEPT !.stream_states[stream_id].credits = credits]
                sent == SenderTrySend(stream_state.data, sender, StreamBuffer, data)
            IN
            IF SenderPollReady(sender) = "NotReady"
              THEN [ctx |-> reserved, res |-> NotReady(data)]
              ELSE [ctx |-> [reserved EXCEPT
                               !.stream_states[stream_id].data = sent.queue,
                               !.stream_senders[stream_id] = sent.sender],
                    res |-> IF sent.ok THEN Ready ELSE NotReady(data)]

\* ConnectionContext::on_data
on_data(ctx, data) ==
    LET stream_id == data.stream_id IN
    IF stream_id \notin DOMAIN ctx.stream_states
      THEN [ctx |-> ctx, res |-> Err("InvalidStreamId")]
      ELSE
        LET stream_state == ctx.stream_states[stream_id]
            sender == ctx.stream_senders[stream_id]
            frame_size == data.payload.len
            enabled == ctx.cfg.flow_control_strategy # "Disabled"
        IN
        IF SenderPollReady(sender) = "NotReady"
          THEN [ctx |-> ctx, res |-> NotReady(data)]
          ELSE IF enabled /\ ~has_capacity(stream_state.credits, frame_size)
            THEN [ctx |-> ctx, res |-> Err("InsufficientCredit")]
            ELSE
              LET credits == IF enabled
                               THEN use_credit(stream_state.credits, frame_size)
                               ELSE stream_state.credits
                  sent == SenderTrySend(stream_state.data, sender, StreamBuffer, data)
                  after == [ctx EXCEPT
                              !.stream_states[stream_id].credits = credits,
                              !.stream_states[stream_id].data = sent.queue,
                              !.stream_senders[stream_id] = sent.sender]
              IN [ctx |-> after, res |-> IF sent.ok THEN Ready ELSE NotReady(data)]

\* ConnectionContext::handle_frame
handle_frame(ctx, f) ==
    CASE f.type = "StreamRequest" -> on_stream_request(ctx, f)
      [] f.type = "CreditUpdate" -> on_credit_update(ctx, f)
      [] f.type = "Data" -> on_data(ctx, f)
      [] f.type = "Ping" -> [ctx |-> ctx, res |-> Ready]
      [] f.type = "Pong" -> [ctx |-> ctx, res |-> Ready]
      [] OTHER -> [ctx |-> ctx, res |-> Err("UnknownFrame")]

\* next_stream popping the newest pending request instead of the oldest.
next_stream_newest(ctx) ==
    IF ctx.new_streams = <<>>
      THEN [ctx |-> ctx, item |-> NoFrame]
      ELSE [ctx |-> [ctx EXCEPT !.new_streams = SubSeq(@, 1, Len(@) - 1)],
            item |-> ctx.new_streams[Len(ctx.new_streams)]]

\* ConnectionContext::next_stream: [ctx, item]; item is NoFrame for None.
next_stream(ctx) ==
    IF ctx.new_streams = <<>>
      THEN [ctx |-> ctx, item |-> NoFrame]
      ELSE [ctx |-> [ctx EXCEPT !.new_streams = Tail(@)], item |-> Head(ctx.new_streams)]

\* ConnectionContext::poll_conn_capacity
poll_conn_capacity(ctx) == SenderPollReady(ctx.outbound)

\* ConnectionContext::poll_stream_capacity: [ctx, res]; res is Err(e),
\* [tag "NotReady"] or [tag "Ready", n].
poll_stream_capacity(ctx, stream_id) ==
    IF ctx.err # "None"
      THEN [ctx |-> ctx, res |-> Err("General")]
    ELSE IF poll_conn_capacity(ctx) = "NotReady"
      THEN [ctx |-> ctx, res |-> [tag |-> "NotReady"]]
    ELSE IF stream_id \notin DOMAIN ctx.stream_states
      THEN [ctx |-> ctx, res |-> Err("InvalidStreamId")]
    ELSE
      LET remaining == ctx.stream_states[stream_id].credits.available IN
      IF remaining = 0
        THEN [ctx |-> [ctx EXCEPT !.stream_states[stream_id].send_task = TRUE],
              res |-> [tag |-> "NotReady"]]
        ELSE [ctx |-> ctx, res |-> [tag |-> "Ready", n |-> remaining]]

\* The tail of send_frame: try_send on the outbound channel, whose result is
\* discarded, then notify_conn_task; Ok(()) in every case.  `enqueued` records
\* the discarded result.
EnqueueOutbound(ctx, frame) ==
    LET sent == SenderTrySend(ctx.outbound_listener, ctx.outbound, OutboundBuffer, frame)
    IN [ctx |-> notify_conn_task([ctx EXCEPT !.outbound_listener = sent.queue,
                                             !.outbound = sent.sender]),
        res |-> "Ok",
        enqueued |-> sent.ok]

\* send_frame reserving credit without the has_capacity check.
send_frame_unchecked(ctx, frame) ==
    IF frame.type = "Data" /\ frame.stream_id \in DOMAIN ctx.stream_states
      THEN EnqueueOutbound(
             [ctx EXCEPT !.stream_states[frame.stream_id].credits =
                            use_credit(@, frame.payload.len)],
             frame)
      ELSE EnqueueOutbound(ctx, frame)

\* ConnectionContext::send_frame
send_frame(ctx, frame) ==
    IF frame.type = "Data"
      THEN
        IF frame.stream_id \notin DOMAIN ctx.stream_states
          THEN [ctx |-> ctx, res |-> "InvalidStreamId", enqueued |-> FALSE]
          ELSE
            LET credits == ctx.stream_states[frame.stream_id].credits
                size == frame.payload.len
            IN
            IF ctx.cfg.flow_control_strategy # "Disabled"
              THEN
                IF ~has_capacity(credits, size)
                  THEN [ctx |-> ctx, res |-> "InsufficientCredit", enqueued |-> FALSE]
                  ELSE EnqueueOutbound(
                         [ctx EXCEPT !.stream_states[frame.stream_id].credits =
                                        use_credit(credits, size)],
                         frame)
              ELSE EnqueueOutbound(ctx, frame)
      ELSE EnqueueOutbound(ctx, frame)

\* ConnectionContext::poll_complete with a writer that takes n frames before
\* its buffer stops being ready: [ctx, handed, ret], handed the frames passed
\* to buffer_and_flush, in order.  The context keeps a Sender of the outbound
\* channel, so the channel never closes and the loop ends in NotReady, on the
\* writer or on the empty queue.
poll_complete(ctx, n) ==
    LET k == IF n < Len(ctx.outbound_listener) THEN n ELSE Len(ctx.outbound_listener)
    IN [ctx |-> [ctx EXCEPT
                   !.outbound_listener = SubSeq(@, k + 1, Len(@)),
                   !.outbound = IF k > 0 THEN [is_parked |-> FALSE] ELSE @],
        handed |-> SubSeq(ctx.outbound_listener, 1, k),
        ret |-> "NotReady"]

\* ------------------------------------------------------------- StreamRef

\* The threshold of return_credit.
Threshold(capacity) == (capacity * FC_NUMERATOR) \div FC_DENOMINATOR

\* past_threshold without the comparison: every return announces.
past_threshold_always(available, capacity) == TRUE

\* past_threshold of return_credit.
past_threshold(available, capacity) == available >= Threshold(capacity)

\* unannounced_credits of return_credit.
unannounced_credits(available, initial) == available - initial

\* StreamRef::return_credit: [ctx, res, credit_update, enqueued]; credit_update
\* is NoFrame when no frame is built.
return_credit(ctx, stream_id, credit) ==
    IF stream_id \notin DOMAIN ctx.stream_states
      THEN [ctx |-> ctx, res |-> "Err", credit_update |-> NoFrame, enqueued |-> FALSE]
      ELSE
        LET stream == ctx.stream_states[stream_id]
            initial == stream.credits.available
            granted == add_credit(stream.credits, credit)
            available == granted.available
            capacity == granted.capacity
            after == [ctx EXCEPT !.stream_states[stream_id].credits = granted]
        IN
        IF past_threshold(available, capacity)
          THEN
            LET credit_update ==
                  CreditUpdateFrame(stream_id, unannounced_credits(available, initial))
                sent == send_frame(after, credit_update)
            IN [ctx |-> sent.ctx, res |-> "Ok", credit_update |-> credit_update,
                enqueued |-> sent.enqueued]
          ELSE [ctx |-> after, res |-> "Ok", credit_update |-> NoFrame, enqueued |-> FALSE]

\* impl Stream for StreamRef, poll: [ctx, item]; item is NoFrame for NotReady.
stream_poll(ctx, stream_id) ==
    LET got == ReceiverPoll(ctx.stream_states[stream_id].data, ctx.stream_senders[stream_id])
    IN [ctx |-> [ctx EXCEPT !.stream_states[stream_id].data = got.queue,
                            !.stream_senders[stream_id] = got.sender],
        item |-> got.item]

\* impl Stream for IncomingStreams, poll: [ctx, item]; item is the stream id of
\* the StreamRef yielded, 0 for NotReady and for the end of the sequence.
incoming_poll(ctx) ==
    IF ctx.err # "None"
      THEN [ctx |-> ctx, item |-> 0]
      ELSE
        LET ev == next_stream(ctx) IN
        IF ev.item # NoFrame
          THEN [ctx |-> ev.ctx, item |-> ev.item.stream_id]
          ELSE [ctx |-> [ctx EXCEPT !.new_stream_task = TRUE], item |-> 0]

\* impl Future for StreamRequester, poll: [ctx, ok, enqueued].
requester_poll(ctx, stream_id, credit) ==
    IF stream_id \in DOMAIN ctx.stream_states
      THEN [ctx |-> ctx, ok |-> FALSE, enqueued |-> FALSE]
      ELSE
        LET inserted == [ctx EXCEPT
                           !.stream_senders = Insert(@, stream_id, [is_parked |-> FALSE]),
                           !.stream_states = Insert(@, stream_id, NewStreamState(credit))]
            sent == send_frame(inserted, StreamRequestFrame(stream_id, credit))
        IN [ctx |-> sent.ctx, ok |-> sent.res = "Ok", enqueued |-> sent.enqueued]

\* ------------------------------------------------------ ConnectionDriver

\* What FrameReader::poll_frame answers when it is not a frame.
ReaderNotReady == [type |-> "NotReady"]
ReaderEof == [type |-> "Eof"]
ReaderErr == [type |-> "Err"]

\* poll_read_progress that goes on reading when handle_frame answers NotReady,
\* without keeping the frame.
poll_read_progress_dropping(ctx, head_of_line, input) ==
    LET from_reader == head_of_line = NoFrame
        idle(ret) == [ctx |-> ctx, head_of_line |-> NoFrame, ret |-> ret, cur |-> NoFrame,
                      pulled |-> FALSE, res |-> [tag |-> "None"]]
    IN
    IF from_reader /\ input = ReaderNotReady THEN idle("NotReady")
    ELSE IF from_reader /\ input = ReaderErr THEN idle("Err")
    ELSE IF from_reader /\ input = ReaderEof THEN idle("Ready")
    ELSE
      LET frame == IF from_reader THEN input ELSE head_of_line
          handled == handle_frame(ctx, frame)
      IN [ctx |-> handled.ctx, head_of_line |-> NoFrame, ret |-> "Continue",
          cur |-> frame, pulled |-> from_reader, res |-> handled.res]

\* One iteration of the loop of ConnectionDriver::poll_read_progress, `input`
\* being what poll_frame answers if it is called:
\* [ctx, head_of_line, ret, cur, pulled, res].  ret is "Continue" when the
\* loop goes on, else what poll_read_progress returns; cur is the frame handed
\* to handle_frame (NoFrame if none), pulled whether poll_frame gave a frame,
\* res the result of handle_frame.
poll_read_progress(ctx, head_of_line, input) ==
    LET from_reader == head_of_line = NoFrame
        idle(ret) == [ctx |-> ctx, head_of_line |-> NoFrame, ret |-> ret, cur |-> NoFrame,
                      pulled |-> FALSE, res |-> [tag |-> "None"]]
    IN
    IF from_reader /\ input = ReaderNotReady THEN idle("NotReady")
    ELSE IF from_reader /\ input = ReaderErr THEN idle("Err")
    ELSE IF from_reader /\ input = ReaderEof THEN idle("Ready")
    ELSE
      LET frame == IF from_reader THEN input ELSE head_of_line
          handled == handle_frame(ctx, frame)
      IN [ctx |-> handled.ctx,
          head_of_line |-> IF handled.res.tag = "NotReady" THEN handled.res.frame ELSE NoFrame,
          ret |-> IF handled.res.tag = "NotReady" THEN "NotReady" ELSE "Continue",
          cur |-> frame,
          pulled |-> from_reader,
          res |-> handled.res]

\* ----------------------------------------------------------------- state

VARIABLES
    ctx,            \* the ConnectionContext behind the mutex
    head_of_line,   \* ConnectionDriver.head_of_line (NoFrame for None)
    pc,             \* where the driver task is: idle, read, write, done, failed
    refs,           \* stream ids for which a StreamRef has been handed out
    arrived,        \* history: how many frames poll_frame has yielded
    accepted,       \* history: per stream, the payload ids of the Data frames
                    \* handle_frame answered Ready for, in that order
    received,       \* history: per stream, the payload ids of the frames
                    \* StreamRef::poll yielded, in that order
    parked,         \* history: the payload ids of the frames that have been
                    \* put in head_of_line
    unwritten,      \* history: the frames send_frame returned Ok for, in order,
    miswritten,     \* and the frames handed to the writer, in order, both
                    \* without their longest common prefix
    unannounced,    \* history: per stream, the effective credit return_credit
                    \* granted since it last built a CreditUpdate
    send_window,    \* history: per stream, credit capacity plus the credit of
                    \* the CreditUpdate frames dispatched for it minus the
                    \* payload bytes of the Data frames send_frame returned Ok
                    \* for; no longer counted once negative
    requested,      \* history: the stream ids of the StreamRequest frames
                    \* handle_frame answered Ready for, in that order
    yielded,        \* history: the stream ids of the StreamRefs IncomingStreams
                    \* yielded, in that order
    woken,          \* history: the stream id at whose acceptance a registered
                    \* acceptor was notified and has not polled since, else 0
    charges         \* history, with flow control enabled: per stream, for every
                    \* dispatch of a Data frame that was answered Ready or
                    \* changed the available credit, in order, the frame's
                    \* payload id and the credit the dispatch took beyond the
                    \* payload length (`excess`, negative if it took less)

vars == <<ctx, head_of_line, pc, refs, arrived, accepted, received, parked,
          unwritten, miswritten, unannounced, send_window, requested, yielded, woken,
                   charges>>

Strategies == {"Disabled", "Enabled"}

Min(a, b) == IF a < b THEN a ELSE b

\* The length of the longest common prefix of two sequences.
CommonPrefixLen(a, b) ==
    CHOOSE k \in 0..Min(Len(a), Len(b)) :
      /\ \A i \in 1..k : a[i] = b[i]
      /\ k = Min(Len(a), Len(b)) \/ a[k + 1] # b[k + 1]

DropFirst(a, k) == SubSeq(a, k + 1, Len(a))

\* send_window after a stream is created with `capacity`, after a CreditUpdate
\* of `credit` is dispatched for it and after send_frame returns Ok for `frame`.
WindowOpened(w, s, capacity) == [w EXCEPT ![s] = capacity]
WindowGranted(w, s, credit) == [w EXCEPT ![s] = IF @ < 0 THEN @ ELSE @ + credit]
WindowSent(w, frame) ==
    IF frame.type = "Data"
      THEN [w EXCEPT ![frame.stream_id] = IF @ < 0 THEN @ ELSE @ - frame.payload.len]
      ELSE w

\* ConnectionDriver::with_io; the flow-control strategy is the configuration
\* of the connection.
Init ==
    /\ ctx \in {NewContext(strategy) : strategy \in Strategies}
    /\ head_of_line = NoFrame
    /\ pc = "idle"
    /\ refs = {}
    /\ arrived = 0
    /\ accepted = [s \in StreamIds |-> <<>>]
    /\ received = [s \in StreamIds |-> <<>>]
    /\ parked = {}
    /\ unwritten = <<>>
    /\ miswritten = <<>>
    /\ unannounced = [s \in StreamIds |-> 0]
    /\ send_window = [s \in StreamIds |-> 0]
    /\ requested = <<>>
    /\ yielded = <<>>
    /\ woken = 0
    /\ charges = [s \in StreamIds |-> <<>>]

\* The histories a specification records.  Every specification runs the same
\* program; a history a specification does not record keeps its initial value.
\*   "order": accepted, received, parked, charges, and the payload ids that
\*            tell the transport's frames apart;
\*   "wire":  unwritten, miswritten (sends are bounded by MaxUnwritten);
\*   "credit": unannounced, send_window;
\*   "accept": requested, yielded, woken (StreamRequest frames arrive for
\*            AcceptIds).
Recorded(track, history, now, initially) == IF history \in track THEN now ELSE initially

\* What the reader may answer: a frame while the run's frames last, or no
\* frame yet, the end of the transport, a framing error.
ReaderOutcomes(track) ==
    (IF arrived < MaxInbound THEN Frame(IF "order" \in track THEN arrived + 1 ELSE 0) ELSE {})
      \cup (IF arrived < MaxInbound /\ "accept" \in track
               THEN {StreamRequestFrame(s, c) : s \in AcceptIds, c \in Capacities} ELSE {})
      \cup {ReaderNotReady, ReaderEof, ReaderErr}

\* The executor polls the driver task.
DriverPoll ==
    /\ pc = "idle"
    /\ pc' = "read"
    /\ UNCHANGED <<ctx, head_of_line, refs, arrived, accepted, received, parked,
                   unwritten, miswritten, unannounced, send_window, requested, yielded, woken,
                   charges>>

\* One iteration of the read loop inside ConnectionDriver::poll, and what
\* poll does with the result when the loop ends.
DriverRead(track) ==
    /\ pc = "read"
    /\ \E input \in ReaderOutcomes(track) :
         LET r == poll_read_progress(ctx, head_of_line, input) IN
         /\ ctx' = IF r.ret = "Err" THEN [r.ctx EXCEPT !.err = "General"] ELSE r.ctx
         /\ head_of_line' = r.head_of_line
         /\ pc' = CASE r.ret = "Continue" -> "read"
                    [] r.ret = "NotReady" -> "write"
                    [] r.ret = "Ready" -> "done"
                    [] OTHER -> "failed"
         /\ arrived' = IF r.pulled THEN arrived + 1 ELSE arrived
         /\ accepted' = Recorded(track, "order",
              IF r.cur.type = "Data" /\ r.res.tag = "Ready"
                THEN [accepted EXCEPT ![r.cur.stream_id] = Append(@, r.cur.payload.id)]
                ELSE accepted,
              accepted)
         /\ parked' = Recorded(track, "order",
              IF r.head_of_line # NoFrame
                THEN parked \cup {r.head_of_line.payload.id} ELSE parked,
              parked)
         /\ send_window' = Recorded(track, "credit",
              CASE r.cur.type = "StreamRequest" /\ r.res.tag = "Ready" ->
                     WindowOpened(send_window, r.cur.stream_id, r.cur.credit_capacity)
                [] r.cur.type = "CreditUpdate"
                     /\ r.cur.stream_id \in DOMAIN ctx.stream_states ->
                     WindowGranted(send_window, r.cur.stream_id, r.cur.credit)
                [] OTHER -> send_window,
              send_window)
         /\ requested' = Recorded(track, "accept",
              IF r.cur.type = "StreamRequest" /\ r.res.tag = "Ready"
                THEN Append(requested, r.cur.stream_id) ELSE requested,
              requested)
         /\ woken' = Recorded(track, "accept",
              IF ctx.new_stream_task /\ ~r.ctx.new_stream_task THEN r.cur.stream_id ELSE woken,
              woken)
         /\ charges' = Recorded(track, "order",
              IF r.cur.type = "Data" /\ r.cur.stream_id \in DOMAIN ctx.stream_states
                   /\ ctx.cfg.flow_control_strategy # "Disabled"
                THEN
                  LET s == r.cur.stream_id
                      taken == ctx.stream_states[s].credits.available
                                 - r.ctx.stream_states[s].credits.available
                  IN IF r.res.tag = "Ready"
                       THEN [charges EXCEPT ![s] = Append(@,
                               [id |-> r.cur.payload.id, excess |-> taken - r.cur.payload.len])]
                     ELSE IF taken # 0
                       THEN [charges EXCEPT ![s] = Append(@,
                               [id |-> r.cur.payload.id, excess |-> taken])]
                     ELSE charges
                ELSE charges,
              charges)
    /\ UNCHANGED <<refs, received, unwritten, miswritten, unannounced, yielded>>

\* ConnectionDriver::poll_write_progress inside poll, the writer taking n
\* frames; poll registers the task only if poll_complete answers Ready.
DriverWrite(track) ==
    /\ pc = "write"
    /\ \E n \in 0..(OutboundBuffer + 1) :
         LET w == poll_complete(ctx, n)
             handed == miswritten \o w.handed
             k == CommonPrefixLen(unwritten, handed)
         IN
         /\ ctx' = IF w.ret = "Ready" THEN [w.ctx EXCEPT !.conn_task = TRUE] ELSE w.ctx
         /\ unwritten' = Recorded(track, "wire", DropFirst(unwritten, k), unwritten)
         /\ miswritten' = Recorded(track, "wire", DropFirst(handed, k), miswritten)
    /\ pc' = "idle"
    /\ UNCHANGED <<head_of_line, refs, arrived, accepted, received, parked, unannounced,
                   send_window, requested, yielded, woken,
                   charges>>

\* ConnectionContext::send_frame / StreamRef::send_frame called by a task.
AppSendFrame(track) ==
    /\ Len(unwritten) < MaxUnwritten
    /\ \E frame \in AppFrame :
         LET r == send_frame(ctx, frame) IN
         /\ ctx' = r.ctx
         /\ unwritten' = Recorded(track, "wire",
              IF r.res = "Ok" THEN Append(unwritten, frame) ELSE unwritten, unwritten)
         /\ send_window' = Recorded(track, "credit",
              IF r.res = "Ok" THEN WindowSent(send_window, frame) ELSE send_window, send_window)
    /\ UNCHANGED <<head_of_line, pc, refs, arrived, accepted, received, parked, miswritten,
                   unannounced, requested, yielded, woken,
                   charges>>

\* StreamRef::return_credit on a handed-out StreamRef.
AppReturnCredit(track) ==
    /\ Len(unwritten) < MaxUnwritten
    /\ \E stream_id \in refs, credit \in CreditAmounts :
         LET r == return_credit(ctx, stream_id, credit)
             effective == r.ctx.stream_states[stream_id].credits.available
                            - ctx.stream_states[stream_id].credits.available
         IN
         /\ ctx' = r.ctx
         /\ unwritten' = Recorded(track, "wire",
              IF r.credit_update # NoFrame
                THEN Append(unwritten, r.credit_update) ELSE unwritten,
              unwritten)
         /\ unannounced' = Recorded(track, "credit",
              [unannounced EXCEPT ![stream_id] =
                 IF r.credit_update # NoFrame THEN 0 ELSE @ + effective],
              unannounced)
    /\ UNCHANGED <<head_of_line, pc, refs, arrived, accepted, received, parked, miswritten,
                   send_window, requested, yielded, woken,
                   charges>>

\* impl Stream for StreamRef: poll on a handed-out StreamRef.
AppStreamPoll(track) ==
    /\ \E stream_id \in refs :
         LET r == stream_poll(ctx, stream_id) IN
         /\ ctx' = r.ctx
         /\ received' = Recorded(track, "order",
              IF r.item # NoFrame
                THEN [received EXCEPT ![stream_id] = Append(@, r.item.payload.id)]
                ELSE received,
              received)
    /\ UNCHANGED <<head_of_line, pc, refs, arrived, accepted, parked,
                   unwritten, miswritten, unannounced, send_window, requested, yielded, woken,
                   charges>>

\* impl Stream for IncomingStreams: poll.
AppIncomingPoll(track) ==
    /\ LET r == incoming_poll(ctx) IN
         /\ ctx' = r.ctx
         /\ refs' = IF r.item # 0 THEN refs \cup {r.item} ELSE refs
         /\ yielded' = Recorded(track, "accept",
              IF r.item # 0 THEN Append(yielded, r.item) ELSE yielded, yielded)
         /\ woken' = 0
    /\ UNCHANGED <<head_of_line, pc, arrived, accepted, received, parked,
                   unwritten, miswritten, unannounced, send_window, requested, charges>>

\* impl Future for StreamRequester: poll.
AppRequestStream(track) ==
    /\ Len(unwritten) < MaxUnwritten
    /\ \E stream_id \in StreamIds, credit \in Capacities :
         LET r == requester_poll(ctx, stream_id, credit) IN
         /\ ctx' = r.ctx
         /\ refs' = IF r.ok THEN refs \cup {stream_id} ELSE refs
         /\ unwritten' = Recorded(track, "wire",
              IF r.ok THEN Append(unwritten, StreamRequestFrame(stream_id, credit))
                      ELSE unwritten,
              unwritten)
         /\ send_window' = Recorded(track, "credit",
              IF r.ok THEN WindowOpened(send_window, stream_id, credit) ELSE send_window,
              send_window)
    /\ UNCHANGED <<head_of_line, pc, arrived, accepted, received, parked, miswritten,
                   unannounced, requested, yielded, woken,
                   charges>>

\* ConnectionContext::poll_stream_capacity called by a task that wants to
\* send on a stream.
AppPollStreamCapacity ==
    /\ \E stream_id \in StreamIds :
         ctx' = poll_stream_capacity(ctx, stream_id).ctx
    /\ UNCHANGED <<head_of_line, pc, refs, arrived, accepted, received, parked,
                   unwritten, miswritten, unannounced, send_window, requested, yielded, woken,
                   charges>>

Step(track) ==
    \/ DriverPoll
    \/ DriverRead(track)
    \/ DriverWrite(track)
    \/ AppSendFrame(track)
    \/ AppReturnCredit(track)
    \/ AppStreamPoll(track)
    \/ AppIncomingPoll(track)
    \/ AppRequestStream(track)
    \/ AppPollStreamCapacity

NextOrder == Step({"order"})
NextWire == Step({"wire"})
NextCredit == Step({"credit"})
NextAccept == Step({"accept"})

SpecOrder == Init /\ [][NextOrder]_vars
SpecWire == Init /\ [][NextWire]_vars
SpecCredit == Init /\ [][NextCredit]_vars
SpecAccept == Init /\ [][NextAccept]_vars

\* ----------------------------------------------------------------- claims

Streams == DOMAIN ctx.stream_states
Credit(s) == ctx.stream_states[s].credits
IsEnabled == ctx.cfg.flow_control_strategy # "Disabled"
PayloadIds(queue) == [i \in 1..Len(queue) |-> queue[i].payload.id]
Increasing(ids) == \A i, j \in 1..Len(ids) : i < j => ids[i] < ids[j]
Elements(seq) == {seq[i] : i \in 1..Len(seq)}

\* C1: for every stream, the Data frames StreamRef::poll has yielded, followed
\* by those still in the stream's inbound queue, are exactly the Data frames
\* handle_frame accepted for the stream, in the order the transport delivered
\* them; a frame parked in head_of_line arrived after every accepted frame of
\* its stream.
C1_InboundInOrder ==
    \A s \in StreamIds :
      /\ received[s] \o (IF s \in Streams THEN PayloadIds(ctx.stream_states[s].data) ELSE <<>>)
           = accepted[s]
      /\ Increasing(accepted[s])
      /\ \A id \in Elements(accepted[s]) : id \in 1..arrived
      /\ head_of_line.type = "Data" /\ head_of_line.stream_id = s
           => \A id \in Elements(accepted[s]) : id < head_of_line.payload.id

\* A frame that was parked in head_of_line has reached the application.
C1_Witness ==
    \E s \in StreamIds : Elements(received[s]) \cap parked # {}

\* C2: when handle_frame answers NotReady(frame) the driver puts that frame in
\* head_of_line and stops reading; while head_of_line is set the next read
\* step dispatches that frame and poll_frame is not called, so no new frame is
\* pulled and head_of_line only changes by being taken.
C2_HeadOfLine ==
    /\ [](\A input \in Frame(arrived + 1) :
            LET r == poll_read_progress(ctx, head_of_line, input) IN
            /\ r.res.tag = "NotReady" =>
                 r.head_of_line = r.cur /\ r.res.frame = r.cur /\ r.ret = "NotReady"
            /\ head_of_line # NoFrame => r.cur = head_of_line /\ ~r.pulled)
    /\ [][head_of_line # NoFrame =>
            arrived' = arrived /\ head_of_line' \in {head_of_line, NoFrame}]_vars
    /\ [][head_of_line = NoFrame /\ head_of_line' # NoFrame =>
            /\ arrived' = arrived + 1
            /\ head_of_line'.type = "Data"
            /\ head_of_line'.payload.id = arrived'
            /\ ctx.stream_senders[head_of_line'.stream_id].is_parked]_vars

\* A frame that was parked in head_of_line has been dispatched again and
\* accepted.
C2_Witness ==
    \E s \in StreamIds : Elements(accepted[s]) \cap parked # {}

\* C3: the frames handed to the writer are at every point a prefix of the
\* frames send_frame returned Ok for, in the order of those returns.
C3_WireIsPrefixOfSent == miswritten = <<>>

\* C4: every stream's available credit is between 0 and its capacity.
C4_CreditsInRange ==
    \A s \in Streams : 0 <= Credit(s).available /\ Credit(s).available <= Credit(s).capacity

\* With flow control enabled, a stream whose credit has been reserved by
\* send_frame and returned below the threshold by return_credit.
C4_Witness ==
    \E s \in Streams :
      /\ IsEnabled
      /\ unannounced[s] > 0
      /\ send_window[s] < Credit(s).capacity
      /\ Credit(s).available < Credit(s).capacity

\* C5: with flow control enabled, the payload bytes of the Data frames
\* send_frame accepted for a stream never exceed the stream's credit capacity
\* plus the credit of the CreditUpdate frames received for it.
C5_SentWithinGrantedCredit ==
    IsEnabled => \A s \in Streams : send_window[s] >= 0

\* C6: a CreditUpdate frame is put on the outbound queue only when the
\* stream's available credit is, after the grant, at least
\* floor(capacity * FC_NUMERATOR / FC_DENOMINATOR); a grant that leaves the
\* available credit below that puts nothing on the outbound queue.
C6_UpdateOnlyPastThreshold ==
    /\ [][\A s \in Streams :
            LET queue == ctx.outbound_listener
                after == ctx'.stream_states[s].credits
            IN
            /\ Len(ctx'.outbound_listener) = Len(queue) + 1
                 /\ ctx'.outbound_listener[Len(queue) + 1].type = "CreditUpdate"
                 /\ ctx'.outbound_listener[Len(queue) + 1].stream_id = s
                 => after.available >= (after.capacity * FC_NUMERATOR) \div FC_DENOMINATOR]_vars
    /\ [][\A s \in Streams :
            LET after == ctx'.stream_states[s].credits IN
            after.available > Credit(s).available
              /\ after.available < (after.capacity * FC_NUMERATOR) \div FC_DENOMINATOR
              => ctx'.outbound_listener = ctx.outbound_listener]_vars

\* return_credit has granted credit below the threshold without a frame, and
\* a CreditUpdate it built past the threshold is on the outbound queue.
C6_Witness ==
    /\ \E s \in Streams : unannounced[s] > 0
    /\ \E i \in 1..Len(ctx.outbound_listener) :
         ctx.outbound_listener[i].type = "CreditUpdate" /\ ctx.outbound_listener[i].credit > 0

\* C7: the credit of the CreditUpdate return_credit builds is the effective
\* credit return_credit granted to the stream since it last built one, this
\* call included.
C7_UpdateCarriesUnannounced ==
    \A s \in refs, credit \in CreditAmounts :
      LET r == return_credit(ctx, s, credit)
          effective == r.ctx.stream_states[s].credits.available - Credit(s).available
      IN r.credit_update # NoFrame => r.credit_update.credit = unannounced[s] + effective

\* C8: return_credit(0) leaves the stream's credits and the outbound queue
\* unchanged and builds no frame.
C8_ReturnZeroIsNoOp ==
    \A s \in refs :
      LET r == return_credit(ctx, s, 0) IN
      /\ r.ctx.stream_states = ctx.stream_states
      /\ r.ctx.outbound_listener = ctx.outbound_listener
      /\ r.credit_update = NoFrame

\* C9: with flow control disabled, return_credit puts no CreditUpdate frame
\* on the outbound queue.
C9_NoUpdateWhenDisabled ==
    ~IsEnabled =>
      \A i \in 1..Len(ctx.outbound_listener) : ctx.outbound_listener[i].type # "CreditUpdate"

\* C10: dispatching CreditUpdate{stream_id, credit} sets a known stream's
\* available credit to min(capacity, available + credit); for an unknown
\* stream it answers InvalidStreamId and changes nothing.
C10_CreditUpdateGrants ==
    \A s \in StreamIds, credit \in CreditAmounts :
      LET r == handle_frame(ctx, CreditUpdateFrame(s, credit)) IN
      IF s \in Streams
        THEN r.ctx.stream_states[s].credits.available
               = Min(Credit(s).capacity, Credit(s).available + credit)
        ELSE r.res = Err("InvalidStreamId") /\ r.ctx = ctx

\* C11: when the driver dispatches an Unknown frame, poll_read_progress
\* returns an error, the one result for which ConnectionDriver::poll latches
\* the connection error and terminates; the read loop does not go on to the
\* next frame.
C11_UnknownFrameTerminates ==
    pc = "read" /\ head_of_line = NoFrame =>
      LET r == poll_read_progress(ctx, head_of_line, UnknownFrame) IN
      r.cur = UnknownFrame /\ r.ret = "Err"

\* C12: once the connection error is latched, send_frame answers an error for
\* every frame and leaves the outbound queue as it is.
C12_SendFailsAfterError ==
    ctx.err # "None" =>
      \A frame \in AppFrame \cup {CreditUpdateFrame(s, 1) : s \in StreamIds} :
        LET r == send_frame(ctx, frame) IN
        r.res # "Ok" /\ r.ctx.outbound_listener = ctx.outbound_listener

\* C13: dispatching a StreamRequest for a stream id that is in stream_states
\* answers InvalidStreamId and changes nothing in the context, and the read
\* loop goes on; over every step, a known stream keeps its credit capacity
\* and a request appended to new_streams is for an id that was not known.
C13_DuplicateRequestRejected ==
    /\ [](\A s \in Streams, c \in Capacities :
            LET r == poll_read_progress(ctx, NoFrame, StreamRequestFrame(s, c)) IN
            /\ r.res = Err("InvalidStreamId")
            /\ r.ctx = ctx
            /\ r.head_of_line = NoFrame /\ r.ret = "Continue")
    /\ [][\A s \in Streams :
            /\ s \in DOMAIN ctx'.stream_states
            /\ ctx'.stream_states[s].credits.capacity = Credit(s).capacity
            /\ Len(ctx'.new_streams) > Len(ctx.new_streams)
                 => ctx'.new_streams[Len(ctx'.new_streams)].stream_id # s]_vars

\* The driver is reading while the acceptor is registered, a stream opened by
\* a local StreamRequester holds an inbound frame and has had credit returned,
\* and a stream accepted from an inbound request is known as well.
C13_Witness ==
    /\ pc = "read" /\ head_of_line = NoFrame
    /\ ctx.new_stream_task
    /\ \E s \in Streams \ Elements(requested) :
         ctx.stream_states[s].data # <<>> /\ Credit(s).available < Credit(s).capacity
    /\ requested # <<>>

\* C14: with flow control enabled, dispatching a Data frame of any payload
\* length, the empty one included, for a stream of credit capacity 0 answers
\* InsufficientCredit and puts nothing in the stream's inbound queue.
C14_ZeroCapacityRejectsData ==
    IsEnabled =>
      \A s \in Streams, n \in PayloadLens :
        Credit(s).capacity = 0 =>
          LET r == handle_frame(ctx, DataFrame(s, Payload(n, 0))) IN
          /\ r.res = Err("InsufficientCredit")
          /\ r.ctx.stream_states[s].data = ctx.stream_states[s].data

\* The frames the next read step may dispatch that are Data frames: the frame
\* in head_of_line if there is one, else a Data frame from the reader.
NextData ==
    IF head_of_line # NoFrame
      THEN {head_of_line}
      ELSE {DataFrame(s, Payload(n, 0)) : s \in StreamIds, n \in PayloadLens}

\* The payload of Data frame f is longer than its stream's available credit.
ExceedsCredit(f) ==
    f.stream_id \in Streams /\ f.payload.len > Credit(f.stream_id).available

\* The read step that dispatches f answers InsufficientCredit, leaves the
\* context (credits, inbound queues, error latch) as it is, parks nothing and
\* goes on reading.
RejectedAndReadOn(f) ==
    LET r == poll_read_progress(ctx, head_of_line, f) IN
    /\ r.res = Err("InsufficientCredit")
    /\ r.ctx = ctx
    /\ r.head_of_line = NoFrame
    /\ r.ret = "Continue"

\* C15 as stated: with flow control enabled, dispatching a Data frame whose
\* payload exceeds the stream's available credit answers InsufficientCredit,
\* changes nothing and the driver reads on.
C15_ExceedingDataRejected ==
    IsEnabled /\ pc = "read" =>
      \A f \in NextData : ExceedsCredit(f) => RejectedAndReadOn(f)

\* C15, amended: that holds when the stream's inbound queue is ready; when it
\* is not, the dispatch answers NotReady(frame) with the context unchanged,
\* the frame is parked in head_of_line and the driver stops reading.
C15_ExceedingDataRejectedWhenReady ==
    IsEnabled /\ pc = "read" =>
      \A f \in NextData :
        ExceedsCredit(f) =>
          IF ctx.stream_senders[f.stream_id].is_parked
            THEN LET r == poll_read_progress(ctx, head_of_line, f) IN
                 /\ r.res = NotReady(f)
                 /\ r.ctx = ctx
                 /\ r.head_of_line = f
                 /\ r.ret = "NotReady"
            ELSE RejectedAndReadOn(f)

\* With flow control enabled the driver is about to dispatch again a parked
\* Data frame that exceeds the credit of its stream, whose inbound queue has
\* become ready.
C15_Witness ==
    /\ IsEnabled /\ pc = "read"
    /\ head_of_line # NoFrame
    /\ ExceedsCredit(head_of_line)
    /\ ~ctx.stream_senders[head_of_line.stream_id].is_parked

\* The stream ids of the requests pending in new_streams, oldest first.
PendingIds == [i \in 1..Len(ctx.new_streams) |-> ctx.new_streams[i].stream_id]

C17_RequesterResolvesOnlyIfEnqueued ==
    \A s \in StreamIds, c \in Capacities :
      LET r == requester_poll(ctx, s, c)
          queue == r.ctx.outbound_listener
      IN
      /\ s \in Streams => ~r.ok
      /\ r.ok => /\ r.enqueued
                 /\ Len(queue) = Len(ctx.outbound_listener) + 1
                 /\ queue[Len(queue)] = StreamRequestFrame(s, c)

\* C18: a task that poll_stream_capacity stored in a stream's send_task is
\* notified when the driver dispatches a CreditUpdate for the stream, and if
\* the update granted credit its next poll_stream_capacity answers the
\* stream's available credit, which is positive.
C18_CreditUpdateWakesSender ==
    \A s \in Streams :
      ctx.stream_states[s].send_task =>
        LET r == handle_frame(ctx, CreditUpdateFrame(s, 1))
            granted == r.ctx.stream_states[s].credits.available - Credit(s).available
            again == poll_stream_capacity(r.ctx, s)
        IN
        /\ ~r.ctx.stream_states[s].send_task
        /\ granted > 0 /\ ctx.err = "None" /\ poll_conn_capacity(ctx) = "Ready" =>
             again.res.tag = "Ready" /\ again.res.n > 0

\* The read step that dispatches a StreamRequest for an id that is not known
\* while the acceptor is registered accepts it and notifies the acceptor.
AcceptNotifies ==
    \A s \in AcceptIds \ Streams, c \in Capacities :
      ctx.new_stream_task /\ pc = "read" /\ head_of_line = NoFrame =>
        LET r == poll_read_progress(ctx, head_of_line, StreamRequestFrame(s, c)) IN
        /\ r.res = Ready
        /\ ~r.ctx.new_stream_task
        /\ r.ctx.new_streams = <<StreamRequestFrame(s, c)>>

\* C19 as stated: an acceptor registered by a NotReady poll is notified when
\* the driver accepts a StreamRequest, and the next poll of the notified
\* acceptor yields that stream.
C19_AcceptorWakeupNotLost ==
    /\ AcceptNotifies
    /\ woken # 0 =>
         /\ ~ctx.new_stream_task
         /\ incoming_poll(ctx).item = woken

\* C19, amended: the next poll of the notified acceptor yields that stream
\* unless the connection error has been latched since, when it yields the end
\* of the sequence; no acceptor is registered while a request is pending, and
\* a pending request leaves new_streams only by being yielded.
C19_AcceptorWakeupNotLostUnlessError ==
    /\ [](/\ AcceptNotifies
          /\ ctx.new_streams # <<>> => ~ctx.new_stream_task
          /\ woken # 0 =>
               /\ ~ctx.new_stream_task
               /\ ctx.new_streams # <<>> /\ Head(ctx.new_streams).stream_id = woken
               /\ incoming_poll(ctx).item = IF ctx.err = "None" THEN woken ELSE 0)
    /\ [][ctx.new_streams # <<>> /\ yielded' = yielded =>
            ctx'.new_streams # <<>> /\ Head(ctx'.new_streams) = Head(ctx.new_streams)]_vars
    /\ [][ctx.new_stream_task /\ Len(ctx'.new_streams) > Len(ctx.new_streams) =>
            ~ctx'.new_stream_task /\ woken' # 0]_vars

\* An acceptor that was yielded a stream, polled again and registered has
\* been notified at the acceptance of a second stream, and has not polled
\* since.
C19_Witness ==
    /\ woken # 0
    /\ yielded # <<>>
    /\ ctx.err = "None"

\* C20: when a poll of the driver returns NotReady the driver task is in the
\* context's conn_task.
C20_DriverRegistersBeforeNotReady ==
    [][pc = "write" /\ pc' = "idle" => ctx'.conn_task]_vars

\* The Data frames the next read step may dispatch, with the payload id the
\* transport's next frame carries.
NextDataInOrder ==
    IF head_of_line # NoFrame
      THEN {head_of_line}
      ELSE {DataFrame(s, Payload(n, arrived + 1)) : s \in StreamIds, n \in PayloadLens}

\* C21: with flow control enabled, the dispatch of a Data frame that is
\* answered Ready takes exactly the payload length from the stream's available
\* credit and puts the frame in the inbound queue, and a dispatch answered
\* NotReady or with an error leaves the context unchanged; so the dispatches
\* that took credit are, per stream, exactly the accepted frames, each once
\* and each for its payload length, however often the frame was parked in
\* head_of_line and dispatched again.
C21_InboundChargedOnce ==
    IsEnabled =>
      /\ \A f \in NextDataInOrder :
           f.stream_id \in Streams =>
             LET s == f.stream_id
                 r == poll_read_progress(ctx, head_of_line, f)
             IN IF r.res.tag = "Ready"
                  THEN /\ r.ctx.stream_states[s].credits.available
                            = Credit(s).available - f.payload.len
                       /\ r.ctx.stream_states[s].data = Append(ctx.stream_states[s].data, f)
                  ELSE r.ctx = ctx
      /\ \A s \in StreamIds :
           /\ [i \in 1..Len(charges[s]) |-> charges[s][i].id] = accepted[s]
           /\ \A i \in 1..Len(charges[s]) : charges[s][i].excess = 0

\* With flow control enabled, a Data frame with a payload that was answered
\* NotReady and parked in head_of_line has been dispatched again, accepted
\* and charged, and is in the stream's inbound queue.
C21_Witness ==
    /\ IsEnabled
    /\ \E s \in Streams :
         \E i \in 1..Len(charges[s]), j \in 1..Len(ctx.stream_states[s].data) :
           /\ charges[s][i].id \in parked
           /\ ctx.stream_states[s].data[j].payload.id = charges[s][i].id
           /\ ctx.stream_states[s].data[j].payload.len > 0
====
